---- MODULE Spec2Model ----
(***************************************************************************)
(* Model of the employee attendance tracker (backend/server.js): the       *)
(* startup sequence, the Attendance table behind the connection pool, and  *)
(* the HTTP handlers with their await points as separate steps.            *)
(*                                                                         *)
(* A string is a sequence of tokens: names and employee ids are sequences  *)
(* of one-character tokens (so that SQL LIKE can be computed on them),     *)
(* dates and statuses are one-token sequences.                             *)
(***************************************************************************)
EXTENDS Integers, Sequences, FiniteSets, Bags, TLC

VARIABLES
    boot,          \* position of startServer / initializeDatabase
    exitCode,      \* status passed to process.exit, 0 while the process runs
    dbCreated,     \* CREATE DATABASE IF NOT EXISTS has succeeded
    tableCreated,  \* CREATE TABLE IF NOT EXISTS has succeeded
    dbUp,          \* whether a statement issued now succeeds
    table,         \* the rows of the Attendance table
    nextId,        \* the table's AUTO_INCREMENT counter
    everIds,       \* history: every id an INSERT has generated
    inflight,      \* bag of requests suspended at an await
    okDeletes,     \* history: per id, number of 200 responses to a Delete
    last           \* the response the running callback has written, NoResp
                   \* once it has left; its fields q and body (the request
                   \* answered), existed (the row was there when the Delete
                   \* arrived) and up (the database was reachable when it was
                   \* written) are history

vars == <<boot, exitCode, dbCreated, tableCreated, dbUp, table, nextId,
          everIds, inflight, okDeletes, last>>

-----------------------------------------------------------------------------
(* Bounds of the model *)

\* rows ever inserted
MaxId == 2
\* requests suspended at an await at the same time
MaxInflight == 2
\* length of the strings of the filter specification
MaxLen == 2
\* rows of the tables of the filter specification
MaxFilterRows == 2

-----------------------------------------------------------------------------
(* Values *)

\* a field that req.body / req.query does not carry
Undefined == <<"<undefined>">>
Empty == <<>>

Present == <<"Present">>
Absent == <<"Absent">>
Late == <<"Late">>

Day1 == <<"2024-01-05">>
Day2 == <<"2024-01-06">>

Ids == 1..MaxId

\* JavaScript truthiness of a field that is a string or undefined
Truthy(v) == v /= Undefined /\ v /= Empty

Body(n, e, d, st) == [employeeName |-> n, employeeID |-> e, date |-> d, status |-> st]

\* valid request bodies: two for one (employeeID, date) pair that differ in
\* name and status, and pairs that differ from it in the date or in the id only
ValidBodies ==
    {Body(<<"a">>, <<"e">>, Day1, Present), Body(<<"b">>, <<"e">>, Day1, Absent),
     Body(<<"a">>, <<"e">>, Day2, Present), Body(<<"a">>, <<"f">>, Day1, Present)}

BaseBody == Body(<<"a">>, <<"e">>, Day1, Present)

\* invalid request bodies: each field missing or empty, a status outside the
\* enum, and bodies with several faults
InvalidBodies ==
    {[BaseBody EXCEPT ![f] = v] :
        f \in {"employeeName", "employeeID", "date", "status"}, v \in {Undefined, Empty}}
    \cup {[BaseBody EXCEPT !.status = Late],
          Body(Undefined, Undefined, Undefined, Undefined),
          Body(<<"a">>, Empty, Day1, Late)}

Bodies == ValidBodies \cup InvalidBodies

NoBody == [employeeName |-> Undefined, employeeID |-> Undefined,
           date |-> Undefined, status |-> Undefined]

NoQuery == [date |-> Undefined, employeeName |-> Undefined, employeeID |-> Undefined]

Query(d, n, e) == [date |-> d, employeeName |-> n, employeeID |-> e]

Queries == {NoQuery,
            Query(Day1, Undefined, Undefined),
            Query(Empty, <<"a">>, Undefined),
            Query(Day1, Undefined, <<"e">>)}

Row(id, b) == [id |-> id, employeeName |-> b.employeeName, employeeID |-> b.employeeID,
               date |-> b.date, status |-> b.status]

Resp(op, code, msg, id, rows, existed, q) ==
    [op |-> op, code |-> code, msg |-> msg, id |-> id, rows |-> rows,
     existed |-> existed, q |-> q, body |-> NoBody, up |-> dbUp]

\* a response to a Create that was suspended, with the body of its request
CreateResp(code, msg, id, b) ==
    [Resp("create", code, msg, id, {}, FALSE, NoQuery) EXCEPT !.body = b]

NoResp == [op |-> "none", code |-> 0, msg |-> "none", id |-> 0, rows |-> {},
           existed |-> FALSE, q |-> NoQuery, body |-> NoBody, up |-> TRUE]

CreateReq(b) == [op |-> "create", pc |-> "check", body |-> b, id |-> 0, existed |-> FALSE]
DeleteReq(id, existed) ==
    [op |-> "delete", pc |-> "exec", body |-> NoBody, id |-> id, existed |-> existed]

Pending == BagToSet(inflight)
Suspend(r) == inflight (+) SetToBag({r})
Resume(r) == inflight (-) SetToBag({r})

-----------------------------------------------------------------------------
(* Startup: startServer awaits initializeDatabase, then listens *)

Init ==
    /\ boot = "connect"
    /\ exitCode = 0
    /\ dbCreated = FALSE
    /\ tableCreated = FALSE
    /\ dbUp \in BOOLEAN
    /\ table = {}
    /\ nextId = 1
    /\ everIds = {}
    /\ inflight = EmptyBag
    /\ okDeletes = [i \in Ids |-> 0]
    /\ last = NoResp

BootSteps == {"connect", "createDb", "end", "createTable"}

\* the catch of initializeDatabase rethrows, the catch of startServer exits
BootFail ==
    /\ boot \in BootSteps
    /\ ~dbUp
    /\ boot' = "exited"
    /\ exitCode' = 1
    /\ UNCHANGED <<dbCreated, tableCreated, dbUp, table, nextId, everIds,
                   inflight, okDeletes, last>>

Connect ==
    /\ boot = "connect"
    /\ dbUp
    /\ boot' = "createDb"
    /\ UNCHANGED <<exitCode, dbCreated, tableCreated, dbUp, table, nextId, everIds,
                   inflight, okDeletes, last>>

CreateDatabase ==
    /\ boot = "createDb"
    /\ dbUp
    /\ boot' = "end"
    /\ dbCreated' = TRUE
    /\ UNCHANGED <<exitCode, tableCreated, dbUp, table, nextId, everIds,
                   inflight, okDeletes, last>>

ConnectionEnd ==
    /\ boot = "end"
    /\ dbUp
    /\ boot' = "createTable"
    /\ UNCHANGED <<exitCode, dbCreated, tableCreated, dbUp, table, nextId, everIds,
                   inflight, okDeletes, last>>

CreateTable ==
    /\ boot = "createTable"
    /\ dbUp
    /\ boot' = "listen"
    /\ tableCreated' = TRUE
    /\ UNCHANGED <<exitCode, dbCreated, dbUp, table, nextId, everIds,
                   inflight, okDeletes, last>>

\* faulty variant: app.listen is called without awaiting initializeDatabase
ListenEarly == boot \in BootSteps \cup {"listen"}

\* the position from which startServer calls app.listen
ListenReady == boot = "listen"

Listen ==
    /\ ListenReady
    /\ boot' = "listening"
    /\ UNCHANGED <<exitCode, dbCreated, tableCreated, dbUp, table, nextId, everIds,
                   inflight, okDeletes, last>>

\* the response written by the previous callback has left the server
Quiet == last = NoResp

\* requests reach the handlers only through the listener
Accepting == boot = "listening" /\ Quiet

\* the response goes out on its connection
Flush ==
    /\ last /= NoResp
    /\ last' = NoResp
    /\ UNCHANGED <<boot, exitCode, dbCreated, tableCreated, dbUp, table, nextId,
                   everIds, inflight, okDeletes>>

\* the database server becomes unreachable, or reachable again
DbToggle ==
    /\ boot /= "exited"
    /\ dbUp' = ~dbUp
    /\ UNCHANGED <<boot, exitCode, dbCreated, tableCreated, table, nextId, everIds,
                   inflight, okDeletes, last>>

-----------------------------------------------------------------------------
(* Handlers without table access *)

\* faulty variant: the health check queries the database
HealthDb == IF dbUp
            THEN Resp("health", 200, "ok", 0, {}, FALSE, NoQuery)
            ELSE Resp("health", 500, "error", 0, {}, FALSE, NoQuery)

HealthResponse == Resp("health", 200, "ok", 0, {}, FALSE, NoQuery)

Health ==
    /\ Accepting
    /\ last' = HealthResponse
    /\ UNCHANGED <<boot, exitCode, dbCreated, tableCreated, dbUp, table, nextId,
                   everIds, inflight, okDeletes>>

Test ==
    /\ Accepting
    /\ last' = IF dbUp
               THEN Resp("test", 200, "ok", 0, {}, FALSE, NoQuery)
               ELSE Resp("test", 500, "error", 0, {}, FALSE, NoQuery)
    /\ UNCHANGED <<boot, exitCode, dbCreated, tableCreated, dbUp, table, nextId,
                   everIds, inflight, okDeletes>>

DbStatus ==
    /\ Accepting
    /\ last' = IF dbUp
               THEN Resp("dbstatus", 200, "ok", 0, {}, FALSE, NoQuery)
               ELSE Resp("dbstatus", 500, "error", 0, {}, FALSE, NoQuery)
    /\ UNCHANGED <<boot, exitCode, dbCreated, tableCreated, dbUp, table, nextId,
                   everIds, inflight, okDeletes>>

-----------------------------------------------------------------------------
(* List all *)

\* SELECT * FROM Attendance ORDER BY ...: the rows, as a set
SelectAll(T) == T

ListAll ==
    /\ Accepting
    /\ last' = IF dbUp
               THEN Resp("list", 200, "ok", 0, SelectAll(table), FALSE, NoQuery)
               ELSE Resp("list", 500, "error", 0, {}, FALSE, NoQuery)
    /\ UNCHANGED <<boot, exitCode, dbCreated, tableCreated, dbUp, table, nextId,
                   everIds, inflight, okDeletes>>

-----------------------------------------------------------------------------
(* Create: validation, then the existence check, then the insert *)

\* faulty variant: the validation forgets the date
MissingFieldNoDate(b) ==
    ~Truthy(b.employeeName) \/ ~Truthy(b.employeeID) \/ ~Truthy(b.status)

\* !employeeName || !employeeID || !date || !status
MissingField(b) ==
    ~Truthy(b.employeeName) \/ ~Truthy(b.employeeID) \/ ~Truthy(b.date) \/ ~Truthy(b.status)

\* ['Present', 'Absent'].includes(status)
StatusAllowed(s) == s \in {Present, Absent}

\* faulty variant: the existence check also compares the name
ExistingSameName(T, b) ==
    {r \in T : r.employeeID = b.employeeID /\ r.date = b.date
               /\ r.employeeName = b.employeeName}

\* SELECT * FROM Attendance WHERE employeeID = ? AND date = ?
Existing(T, b) == {r \in T : r.employeeID = b.employeeID /\ r.date = b.date}

\* faulty variant: the id is one more than the largest id in the table
InsertIdMax(T, counter) ==
    IF T = {} THEN 1 ELSE (CHOOSE i \in {r.id : r \in T} : \A r \in T : r.id <= i) + 1

\* the id AUTO_INCREMENT gives the inserted row (result.insertId)
InsertId(T, counter) == counter

CreatesPending ==
    LET C == {r \in Pending : r.op = "create"}
    IN  BagCardinality([r \in C |-> inflight[r]])

\* the handler up to its first await
CreateRecv(b) ==
    /\ Accepting
    /\ IF MissingField(b)
       THEN /\ last' = Resp("create", 400, "required", 0, {}, FALSE, NoQuery)
            /\ UNCHANGED inflight
       ELSE IF ~StatusAllowed(b.status)
       THEN /\ last' = Resp("create", 400, "status", 0, {}, FALSE, NoQuery)
            /\ UNCHANGED inflight
       ELSE /\ BagCardinality(inflight) < MaxInflight
            /\ nextId + CreatesPending <= MaxId
            /\ inflight' = Suspend(CreateReq(b))
            /\ UNCHANGED last
    /\ UNCHANGED <<boot, exitCode, dbCreated, tableCreated, dbUp, table, nextId,
                   everIds, okDeletes>>

\* the existence check returns, or throws
CreateCheck(r) ==
    /\ Quiet
    /\ r \in Pending
    /\ r.op = "create"
    /\ r.pc = "check"
    /\ IF ~dbUp
       THEN /\ inflight' = Resume(r)
            /\ last' = CreateResp(500, "error", 0, r.body)
       ELSE IF Existing(table, r.body) /= {}
       THEN /\ inflight' = Resume(r)
            /\ last' = CreateResp(400, "duplicate", 0, r.body)
       ELSE /\ inflight' = Resume(r) (+) SetToBag({[r EXCEPT !.pc = "insert"]})
            /\ UNCHANGED last
    /\ UNCHANGED <<boot, exitCode, dbCreated, tableCreated, dbUp, table, nextId,
                   everIds, okDeletes>>

\* faulty variant: the row is written although the INSERT reports an error
InsertFailedPartial(r) ==
    /\ inflight' = Resume(r)
    /\ table' = table \cup {Row(nextId, r.body)}
    /\ nextId' = nextId + 1
    /\ everIds' = everIds \cup {nextId}
    /\ last' = CreateResp(500, "error", 0, r.body)

\* the INSERT throws: the catch answers 500
InsertFailed(r) ==
    /\ inflight' = Resume(r)
    /\ last' = CreateResp(500, "error", 0, r.body)
    /\ UNCHANGED <<table, nextId, everIds>>

\* the INSERT returns, or throws
CreateInsert(r) ==
    /\ Quiet
    /\ r \in Pending
    /\ r.op = "create"
    /\ r.pc = "insert"
    /\ IF ~dbUp
       THEN InsertFailed(r)
       ELSE LET id == InsertId(table, nextId)
            IN  /\ inflight' = Resume(r)
                /\ table' = table \cup {Row(id, r.body)}
                /\ nextId' = nextId + 1
                /\ everIds' = everIds \cup {id}
                /\ last' = CreateResp(201, "created", id, r.body)
    /\ UNCHANGED <<boot, exitCode, dbCreated, tableCreated, dbUp, okDeletes>>

-----------------------------------------------------------------------------
(* Delete by id *)

\* faulty variant: the DELETE compares with <= instead of =
DeleteWhereUpTo(T, id) == {r \in T : r.id > id}

\* DELETE FROM Attendance WHERE id = ?: the rows that stay
DeleteWhere(T, id) == {r \in T : r.id /= id}

\* result.affectedRows
AffectedRows(T, id) == Cardinality({r \in T : r.id = id})

\* faulty variant: affectedRows is not looked at
DeleteCodeAlways(affected) == 200

\* 404 if result.affectedRows === 0, else 200
DeleteCode(affected) == IF affected = 0 THEN 404 ELSE 200

DeleteRecv(id) ==
    /\ Accepting
    /\ BagCardinality(inflight) < MaxInflight
    /\ inflight' = Suspend(DeleteReq(id, \E r \in table : r.id = id))
    /\ UNCHANGED <<boot, exitCode, dbCreated, tableCreated, dbUp, table, nextId,
                   everIds, okDeletes, last>>

\* the DELETE returns, or throws
DeleteExec(r) ==
    /\ Quiet
    /\ r \in Pending
    /\ r.op = "delete"
    /\ inflight' = Resume(r)
    /\ IF ~dbUp
       THEN /\ last' = Resp("delete", 500, "error", r.id, {}, r.existed, NoQuery)
            /\ UNCHANGED <<table, okDeletes>>
       ELSE LET code == DeleteCode(AffectedRows(table, r.id))
            IN  /\ table' = DeleteWhere(table, r.id)
                /\ last' = Resp("delete", code,
                                IF code = 200 THEN "deleted" ELSE "notfound",
                                r.id, {}, r.existed, NoQuery)
                /\ okDeletes' = IF code = 200
                                THEN [okDeletes EXCEPT ![r.id] = IF @ < 2 THEN @ + 1 ELSE @]
                                ELSE okDeletes
    /\ UNCHANGED <<boot, exitCode, dbCreated, tableCreated, dbUp, nextId, everIds>>

-----------------------------------------------------------------------------
(* Filter *)

\* SQL LIKE: % matches any string, _ matches any one character
RECURSIVE Like(_, _)
Like(s, p) ==
    IF p = <<>> THEN s = <<>>
    ELSE IF Head(p) = "%" THEN Like(s, Tail(p)) \/ (s /= <<>> /\ Like(Tail(s), p))
    ELSE s /= <<>> /\ (Head(p) = "_" \/ Head(p) = Head(s)) /\ Like(Tail(s), Tail(p))

\* `%${x}%`
FilterPattern(x) == <<"%">> \o x \o <<"%">>

\* the WHERE clause the handler builds from the query
Where(T, q) ==
    {r \in T :
        /\ Truthy(q.date) => r.date = q.date
        /\ Truthy(q.employeeName) => Like(r.employeeName, FilterPattern(q.employeeName))
        /\ Truthy(q.employeeID) => Like(r.employeeID, FilterPattern(q.employeeID))}

Filter(q) ==
    /\ Accepting
    /\ last' = IF dbUp
               THEN Resp("filter", 200, "ok", 0, Where(table, q), FALSE, q)
               ELSE Resp("filter", 500, "error", 0, {}, FALSE, q)
    /\ UNCHANGED <<boot, exitCode, dbCreated, tableCreated, dbUp, table, nextId,
                   everIds, inflight, okDeletes>>

-----------------------------------------------------------------------------
(* The service *)

Next ==
    \/ BootFail
    \/ Connect
    \/ CreateDatabase
    \/ ConnectionEnd
    \/ CreateTable
    \/ Listen
    \/ DbToggle
    \/ Health
    \/ Test
    \/ DbStatus
    \/ ListAll
    \/ \E b \in Bodies : CreateRecv(b)
    \/ \E r \in Pending : CreateCheck(r)
    \/ \E r \in Pending : CreateInsert(r)
    \/ \E id \in Ids : DeleteRecv(id)
    \/ \E r \in Pending : DeleteExec(r)
    \/ \E q \in Queries : Filter(q)
    \/ Flush

Spec == Init /\ [][Next]_vars

-----------------------------------------------------------------------------
(* The filter on its own: tables and queries over strings with wildcards *)

FilterAlphabet == {"a", "_"}

Strings(n) == UNION {[1..k -> FilterAlphabet] : k \in 0..n}

FilterStrings == Strings(MaxLen) \ {Empty}

FilterRowOf(i) ==
    {Row(i, b) : b \in [employeeName : FilterStrings, employeeID : FilterStrings,
                        date : {Day1, Day2}, status : {Present}]}

FilterTables ==
    UNION {{{f[i] : i \in 1..n} : f \in [1..n -> UNION {FilterRowOf(i) : i \in 1..n}]}
           : n \in 0..MaxFilterRows}

FilterQueries == [date : {Undefined, Empty, Day1},
                  employeeName : Strings(MaxLen) \cup {Undefined},
                  employeeID : Strings(MaxLen) \cup {Undefined}]

InitFilter ==
    /\ boot = "listening"
    /\ exitCode = 0
    /\ dbCreated = TRUE
    /\ tableCreated = TRUE
    /\ dbUp = TRUE
    /\ table \in {T \in FilterTables : {r.id : r \in T} = 1..Cardinality(T)}
    /\ nextId = Cardinality(table) + 1
    /\ everIds = {r.id : r \in table}
    /\ inflight = EmptyBag
    /\ okDeletes = [i \in Ids |-> 0]
    /\ last = NoResp

\* one Filter request against the table Init drew
NextFilter == \E q \in FilterQueries : Filter(q)

SpecFilter == InitFilter /\ [][NextFilter]_vars

-----------------------------------------------------------------------------
(* Vocabulary of the properties *)

SamePair(x, y) == x.employeeID = y.employeeID /\ x.date = y.date

PairExists(T, b) == \E row \in T : SamePair(row, b)

RowPresent(T, i) == \E row \in T : row.id = i

FieldAbsent(v) == v = Undefined \/ v = Empty

BodyInvalid(b) ==
    \/ FieldAbsent(b.employeeName)
    \/ FieldAbsent(b.employeeID)
    \/ FieldAbsent(b.date)
    \/ FieldAbsent(b.status)
    \/ (b.status /= Present /\ b.status /= Absent)

\* x occurs in s as a contiguous substring
Contains(s, x) ==
    \E i \in 0..(Len(s) - Len(x)) : \A k \in 1..Len(x) : s[i + k] = x[k]

NoOtherCreate(r) ==
    /\ CopiesIn(r, inflight) = 1
    /\ \A x \in Pending : (x.op = "create" /\ SamePair(x.body, r.body)) => x = r

Answered(r) == inflight' = inflight (-) SetToBag({r})

-----------------------------------------------------------------------------
(* C1 *)

\* C1: in every reachable state the table holds at most one record for each
\* (employeeID, date) pair
C1_AtMostOnePerPair ==
    \A r, s \in table : SamePair(r, s) => r = s

-----------------------------------------------------------------------------
(* C2 *)

DuplicateAnswer(r) ==
    /\ Answered(r)
    /\ last'.op = "create"
    /\ last'.code = 400
    /\ last'.msg = "duplicate"
    /\ table' = table
    /\ nextId' = nextId
    /\ everIds' = everIds

\* C2 as stated: a valid Create whose existence check runs while a record
\* with its (employeeID, date) exists, no other Create for the pair being in
\* flight, is answered 400 'already recorded', inserts nothing and leaves the
\* table unchanged
C2_DuplicateRejected ==
    [][\A r \in Pending :
         (CreateCheck(r) /\ PairExists(table, r.body) /\ NoOtherCreate(r))
            => DuplicateAnswer(r)]_vars

\* C2 amended: the same, provided the existence check statement succeeds
C2_DuplicateRejectedIfCheckSucceeds ==
    [][\A r \in Pending :
         (CreateCheck(r) /\ PairExists(table, r.body) /\ NoOtherCreate(r) /\ dbUp)
            => DuplicateAnswer(r)]_vars

\* a second attempt with another name and status has just been rejected
C2_Witness ==
    /\ last.op = "create"
    /\ last.code = 400
    /\ last.msg = "duplicate"
    /\ last.body = Body(<<"b">>, <<"e">>, Day1, Absent)
    /\ table = {Row(1, Body(<<"a">>, <<"e">>, Day1, Present))}
    /\ inflight = EmptyBag
    /\ nextId = 2

-----------------------------------------------------------------------------
(* C3 *)

-----------------------------------------------------------------------------
(* C4 *)

\* C4: a Create with a missing or empty field, or a status outside
\* {Present, Absent}, is answered 400 and creates no row, whether or not the
\* database is reachable: no statement is issued for it
C4_InvalidRejected ==
    [][\A b \in Bodies :
         (CreateRecv(b) /\ BodyInvalid(b))
            => (/\ last'.op = "create"
                /\ last'.code = 400
                /\ last'.msg \in {"required", "status"}
                /\ inflight' = inflight
                /\ table' = table
                /\ nextId' = nextId)]_vars

\* an invalid Create was answered 400 while the database was unreachable
C4_Witness ==
    /\ last.op = "create"
    /\ last.code = 400
    /\ last.msg = "status"
    /\ ~last.up
    /\ table /= {}

-----------------------------------------------------------------------------
(* C5 *)

DeleteOutcome(r) ==
    IF RowPresent(table, r.id)
    THEN /\ last'.op = "delete"
         /\ last'.code = 200
         /\ last'.id = r.id
         /\ table' = {row \in table : row.id /= r.id}
         /\ Cardinality(table') = Cardinality(table) - 1
    ELSE /\ last'.op = "delete"
         /\ last'.code = 404
         /\ table' = table

NeverListedAgain ==
    /\ \A i \in Ids : (i \in everIds /\ ~RowPresent(table, i)) => ~RowPresent(table', i)
    /\ (last' /= last /\ last'.op \in {"list", "filter"}) => last'.rows \subseteq table

\* C5 as stated: a Delete of an id in the table is answered 200 and removes
\* exactly that row, the id appearing in no later listing; a Delete of an id
\* not in the table is answered 404 and leaves the table unchanged
C5_DeleteExact ==
    [][/\ \A r \in Pending : DeleteExec(r) => (Answered(r) /\ DeleteOutcome(r))
       /\ NeverListedAgain]_vars

\* C5 amended: the same, provided the DELETE statement succeeds
C5_DeleteExactIfStatementSucceeds ==
    [][/\ \A r \in Pending : (DeleteExec(r) /\ dbUp) => (Answered(r) /\ DeleteOutcome(r))
       /\ NeverListedAgain]_vars

\* one of two rows has just been deleted, the other is still there
C5_Witness ==
    /\ last.op = "delete"
    /\ last.code = 200
    /\ ~RowPresent(table, last.id)
    /\ \E row \in table : row.id /= last.id

-----------------------------------------------------------------------------
(* C6 *)

\* C6: a Filter answered 200 returns exactly the records that satisfy every
\* supplied filter (date equal, employeeName contains the substring,
\* employeeID contains the substring); an absent or empty filter restricts
\* nothing
C6_FilterExact ==
    (last.op = "filter" /\ last.code = 200)
        => last.rows =
             {r \in table :
                /\ ~FieldAbsent(last.q.date) => r.date = last.q.date
                /\ ~FieldAbsent(last.q.employeeName)
                      => Contains(r.employeeName, last.q.employeeName)
                /\ ~FieldAbsent(last.q.employeeID)
                      => Contains(r.employeeID, last.q.employeeID)}

-----------------------------------------------------------------------------
(* C7 *)

\* C7: the listener runs only after connect, create database and create
\* table have succeeded; a bootstrap step that fails ends the process with a
\* non-zero status, after which the listener never starts; no request is in
\* flight or answered unless the bootstrap has completed
C7_ListenAfterBootstrap ==
    /\ [](/\ boot = "listening" => (dbCreated /\ tableCreated /\ exitCode = 0)
          /\ (inflight /= EmptyBag \/ last /= NoResp)
                => (boot = "listening" /\ dbCreated /\ tableCreated)
          /\ boot = "exited" => exitCode /= 0)
    /\ [][/\ boot = "exited" => boot' = "exited"
          /\ (boot \in BootSteps /\ ~dbUp /\ boot' /= boot)
                => (boot' = "exited" /\ exitCode' /= 0)
          /\ boot' = "listening" => (dbCreated /\ tableCreated)]_vars

\* a request has been served by the started listener
C7_Witness ==
    /\ boot = "listening"
    /\ dbCreated
    /\ tableCreated
    /\ last.op = "create"
    /\ last.code = 201

-----------------------------------------------------------------------------
(* C8 *)

Failure(op) ==
    /\ last'.op = op
    /\ last'.code = 500
    /\ table' = table
    /\ nextId' = nextId
    /\ everIds' = everIds

\* C8: a handler whose statement fails answers its request once, with 500,
\* and applies nothing: a Create whose existence check or insert fails adds
\* no row, a Delete whose statement fails removes none
C8_StorageFailure ==
    [][~dbUp =>
         /\ ListAll => (Failure("list") /\ inflight' = inflight)
         /\ Test => (Failure("test") /\ inflight' = inflight)
         /\ DbStatus => (Failure("dbstatus") /\ inflight' = inflight)
         /\ \A q \in Queries : Filter(q) => (Failure("filter") /\ inflight' = inflight)
         /\ \A r \in Pending : CreateCheck(r) => (Failure("create") /\ Answered(r))
         /\ \A r \in Pending : CreateInsert(r) => (Failure("create") /\ Answered(r))
         /\ \A r \in Pending : DeleteExec(r) => (Failure("delete") /\ Answered(r))
      ]_vars

\* a Delete of a row has failed and the row is still there
C8_Witness ==
    /\ last.op = "delete"
    /\ last.code = 500
    /\ ~last.up
    /\ RowPresent(table, last.id)

-----------------------------------------------------------------------------
(* C9 *)

\* C9: the table changes only in the insert of a Create and the statement of
\* a Delete; List-all, Filter and the three checks leave it as it is; the
\* health check answers 200 whether or not the database is reachable
C9_ReadOnly ==
    /\ [](last.op = "health" => (last.code = 200 /\ last.msg = "ok"))
    /\ [][/\ (table' /= table \/ nextId' /= nextId)
                => \E r \in Pending : CreateInsert(r) \/ DeleteExec(r)
          /\ (ListAll \/ Health \/ Test \/ DbStatus \/ \E q \in Queries : Filter(q))
                => (table' = table /\ nextId' = nextId /\ inflight' = inflight)
          /\ Health => last'.code = 200]_vars

\* the health check answered 200 while the database was unreachable
C9_Witness ==
    /\ last.op = "health"
    /\ last.code = 200
    /\ ~last.up
    /\ table /= {}

-----------------------------------------------------------------------------
(* C10 *)

\* C10: of the Deletes of one id whose statements succeed, exactly one is
\* answered 200 and every other one 404, under every interleaving; no row is
\* reported deleted twice
C10_OneDeleteWins ==
    /\ \A i \in Ids :
         okDeletes[i] = IF i \in everIds /\ ~RowPresent(table, i) THEN 1 ELSE 0
    /\ (last.op = "delete" /\ last.up) => last.code \in {200, 404}
    /\ (last.op = "delete" /\ last.code = 200)
          => (okDeletes[last.id] = 1 /\ ~RowPresent(table, last.id))
    /\ (last.op = "delete" /\ last.code = 404 /\ last.existed)
          => okDeletes[last.id] = 1

\* two Deletes of one row were in flight together: one was answered 200, the
\* other, which arrived while the row was there, 404
C10_Witness ==
    /\ last.op = "delete"
    /\ last.code = 404
    /\ last.existed
    /\ okDeletes[last.id] = 1
    /\ inflight = EmptyBag

====
